---- MODULE Spec2Model ----
(***************************************************************************)
(* Model of the loopback audio monitor (src/src/monitor.rs, fft.rs and the *)
(* WASAPI capture client it drives): the AudioMonitor controller on the    *)
(* caller's thread, the relay ("AudioMonitor") thread, the capture         *)
(* ("LoopbackCapture") thread, the bounded channel between them and the    *)
(* latest-chunk slot guarded by a mutex.                                   *)
(***************************************************************************)
EXTENDS Integers, Sequences, FiniteSets, TLC

(***************************************************************************)
(* Bounds of the model.                                                    *)
(***************************************************************************)
\* sessions one controller launches
MaxSessions == 2
\* largest chunk size a caller passes to start(), powers of two or not
MaxChunkSize == 2
\* log2 of the chunk size a new controller holds (2048 = 2^11 in the source)
DefaultChunkLog2 == 1
\* frames the endpoint delivers during one session
MaxFrames == 2
\* largest packet (in frames) one GetBuffer call returns
MaxPacketFrames == 2
\* largest num_bands a caller passes to get_spectrum while sessions run
MaxBands == 1
\* analyze_spectrum on its own: longest chunk, largest num_bands, largest amplitude
FftMaxLen == 4
FftMaxBands == 3
MaxAmp == 1
\* extraction on its own: most frames extracted at once, spare bytes behind them
ExtMaxFrames == 2
ExtMaxSpare == 3
\* the chunk size of the session SpecOdd follows, not a power of two
OddChunkSize == 3
MaxDecayX2 == 36
MaxDecayK == 2
MaxDecayMaxLog2 == 1
MaxVisLen == 2
MaxVisBands == 2
MaxVisAmp == 9
MaxBins == 4
MaxMag == 1
MaxBandCount == 5
MaxClientCalls == 3
MaxCallbackLen == 2
MaxListenerSamples == 3

(***************************************************************************)
(* Program constants.                                                      *)
(***************************************************************************)
\* mpsc::sync_channel(10)
ChannelCap == 10
\* WaveFormat::new(32, 32, &SampleType::Float, 44100, 2, None)
StoreBits == 32
Channels == 2
\* WaveFormat::get_blockalign(): bytes of one frame
blockalign == Channels * (StoreBits \div 8)
\* bytes of one f32 sample
SampleBytes == StoreBits \div 8

\* Option::None of device_id
NoDevice == "none"
\* the id of the endpoint the system reports as default render endpoint
DefaultId == "default-endpoint"
\* an id no endpoint answers to
StaleId == "stale-id"
\* ids get_output_device_by_id resolves
AvailableIds == {DefaultId}
DeviceArgs == {NoDevice, DefaultId, StaleId}

(***************************************************************************)
(* An f32 is modelled by the fields of its IEEE-754 bit pattern: sign (1   *)
(* bit), exp (8 bits), mant (23 bits).                                     *)
(***************************************************************************)
RECURSIVE FloorLog2(_)
FloorLog2(n) == IF n <= 1 THEN 0 ELSE 1 + FloorLog2(n \div 2)

Abs(x) == IF x < 0 THEN 0 - x ELSE x

\* the f32 equal to integer v (|v| < 2^24, so exact)
F32FromInt(v) ==
  IF v = 0 THEN [sign |-> 0, exp |-> 0, mant |-> 0]
  ELSE LET a == Abs(v)
           e == FloorLog2(a)
       IN [sign |-> IF v < 0 THEN 1 ELSE 0, exp |-> 127 + e,
           mant |-> (a - 2^e) * 2^(23 - e)]

F32IsNaN(f) == f.exp = 255 /\ f.mant # 0

\* the integer an f32 stands for, for integral finite values (the only ones
\* the analysis specifications feed in)
F32ToInt(f) ==
  IF f.exp = 0 /\ f.mant = 0 THEN 0
  ELSE LET e == f.exp - 127
           m == 2^23 + f.mant
           a == IF e >= 23 THEN m * 2^(e - 23) ELSE m \div 2^(23 - e)
       IN IF f.sign = 1 THEN 0 - a ELSE a

\* f32::from_le_bytes: byte 0 is the least significant, so the sign and the
\* high exponent bits sit in byte 3
f32_from_le_bytes(b) ==
  [sign |-> b[4] \div 128,
   exp  |-> (b[4] % 128) * 2 + b[3] \div 128,
   mant |-> (b[3] % 128) * 65536 + b[2] * 256 + b[1]]

\* the four bytes of an f32 in memory order, as the endpoint lays them out
LeBytes(f) ==
  << f.mant % 256, (f.mant \div 256) % 256,
     (f.exp % 2) * 128 + f.mant \div 65536, f.sign * 128 + f.exp \div 2 >>

(***************************************************************************)
(* extract_float_samples(&mut queue, chunk_size, blockalign): per sample   *)
(* slot, pop four bytes as the channel-0 f32 and discard the rest of the   *)
(* frame.  Yields the samples and the queue left behind.                   *)
(***************************************************************************)
RECURSIVE extract_float_samples(_, _, _)
extract_float_samples(queue, n, align) ==
  IF n = 0 THEN [samples |-> << >>, queue |-> queue]
  ELSE LET first == f32_from_le_bytes(SubSeq(queue, 1, SampleBytes))
           rest == extract_float_samples(SubSeq(queue, align + 1, Len(queue)), n - 1, align)
       IN [samples |-> <<first>> \o rest.samples, queue |-> rest.queue]

(***************************************************************************)
(* analyze_spectrum (src/src/fft.rs).  Samples are integral f32 values;    *)
(* the windowed input and the transform are carried exactly, as Gaussian   *)
(* integers scaled by 4, with a flag for NaN.  The transform sizes the     *)
(* model reaches are 1, 2 and 4, whose Hann weights and twiddle factors    *)
(* are rational.                                                           *)
(***************************************************************************)
RECURSIVE NextPow2From(_, _)
NextPow2From(p, n) == IF p >= n THEN p ELSE NextPow2From(2 * p, n)
\* usize::next_power_of_two: the smallest power of two >= n (1 for n = 0)
next_power_of_two(n) == NextPow2From(1, n)

\* 2 * cos(2 * PI * i / d) for the denominators d = fft_size - 1 of sizes 2 and 4
TwoCos(i, d) ==
  CASE d = 1 -> 2
    [] d = 3 -> IF i % 3 = 0 THEN 2 ELSE 0 - 1

\* 4 * 0.5 * (1 - cos(2 PI i / (fft_size - 1))); i / 0.0 with i = 0 is NaN
HannWindow(i, fft_size) ==
  IF fft_size = 1 THEN [nan |-> TRUE, v |-> 0]
  ELSE [nan |-> FALSE, v |-> 2 - TwoCos(i, fft_size - 1)]

\* fft_input[i] = Complex::new(s, 0.0) * window, i counted from 0
WindowedInput(samples, fft_size) ==
  [j \in 1..fft_size |->
     LET w == HannWindow(j - 1, fft_size)
         s == samples[j]
     IN [re |-> F32ToInt(s) * w.v, im |-> 0, nan |-> w.nan \/ F32IsNaN(s)]]

\* c * e^(-2 PI i m / 4)
MulTwiddle4(c, m) ==
  CASE m % 4 = 0 -> c
    [] m % 4 = 1 -> [c EXCEPT !.re = c.im, !.im = 0 - c.re]
    [] m % 4 = 2 -> [c EXCEPT !.re = 0 - c.re, !.im = 0 - c.im]
    [] m % 4 = 3 -> [c EXCEPT !.re = 0 - c.im, !.im = c.re]

CAdd(a, b) == [re |-> a.re + b.re, im |-> a.im + b.im, nan |-> a.nan \/ b.nan]

RECURSIVE DftTerm(_, _, _)
\* sum over n < upto of x[n] * e^(-2 PI i k n / N), N = Len(x) dividing 4
DftTerm(x, k, upto) ==
  IF upto = 0 THEN [re |-> 0, im |-> 0, nan |-> FALSE]
  ELSE CAdd(DftTerm(x, k, upto - 1),
            MulTwiddle4(x[upto], k * (upto - 1) * (4 \div Len(x))))

\* fft.process: the unnormalised forward transform
FftForward(x) == [k \in 1..Len(x) |-> DftTerm(x, k - 1, Len(x))]

RECURSIVE IsqrtFrom(_, _)
IsqrtFrom(r, n) == IF (r + 1) * (r + 1) > n THEN r ELSE IsqrtFrom(r + 1, n)
\* Complex::norm, rounded down to the scaled unit: zero exactly when c is zero
Norm(c) == [nan |-> c.nan, v |-> IsqrtFrom(0, c.re * c.re + c.im * c.im)]

\* fft_output.iter().take(fft_size / 2).map(|c| c.norm())
Magnitudes(out, fft_size) == [k \in 1..(fft_size \div 2) |-> Norm(out[k])]

RECURSIVE SliceSum(_, _, _)
\* magnitudes[start..end].iter().sum(), start and end counted from 0
SliceSum(m, start, end) ==
  IF end <= start THEN [nan |-> FALSE, v |-> 0]
  ELSE LET r == SliceSum(m, start, end - 1)
       IN [nan |-> r.nan \/ m[end].nan, v |-> r.v + m[end].v]

\* An f32 result is kept as its class: "nan", "neg", "zero" or "pos".
\* sum / bins_per_band as f32: 0.0 / 0.0 is NaN, x / 0.0 is an infinity
DivClass(sum, n) ==
  IF sum.nan \/ (n = 0 /\ sum.v = 0) THEN "nan"
  ELSE IF sum.v > 0 THEN "pos"
  ELSE IF sum.v < 0 THEN "neg"
  ELSE "zero"

\* (1.0 + x).log10() on classes: NaN stays NaN, 0 gives 0, a positive x a positive
\* value; a negative x gives a negative value, -inf or NaN, kept as "neg"
Log10OnePlus(c) ==
  CASE c = "nan" -> "nan"
    [] c = "zero" -> "zero"
    [] c = "pos" -> "pos"
    [] c = "neg" -> "neg"

\* a band loop whose start and end do not move with i
BandValue_First(m, i, bins_per_band) ==
  Log10OnePlus(DivClass(SliceSum(m, 0, bins_per_band), bins_per_band))
\* the body of the band loop for band i, counted from 0
BandValue(m, i, bins_per_band) ==
  Log10OnePlus(DivClass(SliceSum(m, i * bins_per_band, (i + 1) * bins_per_band),
                        bins_per_band))

\* bins_per_band and the loop over the bands, on the fft_size / 2 magnitudes m
BandLoop(m, fft_size, num_bands) ==
  LET bins_per_band == (fft_size \div 2) \div num_bands
  IN [i \in 1..num_bands |-> BandValue(m, i - 1, bins_per_band)]

Panicked == [ok |-> FALSE, val |-> << >>]

\* analyze_spectrum(samples, num_bands): the spectrum, or a panic
analyze_spectrum(samples, num_bands) ==
  LET fft_size == next_power_of_two(Len(samples))
  IN IF Len(samples) < fft_size
       THEN Panicked       \* fft_input[i] with i >= samples.len(): index out of bounds
     ELSE IF num_bands = 0
       THEN Panicked       \* (fft_size / 2) / num_bands: division by zero
     ELSE LET m == Magnitudes(FftForward(WindowedInput(samples, fft_size)), fft_size)
          IN [ok |-> TRUE, val |-> BandLoop(m, fft_size, num_bands)]

\* a result Vec without the requested elements
Zeros_Empty(n) == << >>
\* vec![0.0; num_bands]
Zeros(n) == [i \in 1..n |-> "zero"]

(***************************************************************************)
(* The decay-smoothing path (utils.rs).  An f32 in [0, 1] is held as its   *)
(* multiple of 2^-30, an input x as 2x, so that halves are exact.          *)
(***************************************************************************)
One30 == 2 ^ 30

\* f32::exp at -h/2 for h = 0, 1, 2, ...: the nearest f32, in units of 2^-30
ExpTable ==
  << 1073741824, 651257344, 395007552, 239584192, 145315152, 88138096, 53458456,
     32424194, 19666268, 11928194, 7234816, 4388138, 2661540, 1614306, 979126,
     593870, 360200, 218472, 132510, 80372, 48748, 29567, 17933, 10877, 6597,
     4001, 2427, 1472, 893, 542, 328, 199, 121, 73, 44, 27, 16, 10, 6, 4, 2, 1, 1 >>
F32ExpNeg(h) == IF h < Len(ExpTable) THEN ExpTable[h + 1] ELSE 0

\* the f32 nearest to v * 2^-30 (24 significant bits, ties to even), same units
F32Round(v) ==
  IF v = 0 THEN 0
  ELSE LET fl == FloorLog2(v)
           q == IF fl > 23 THEN 2 ^ (fl - 23) ELSE 1
           lo == (v \div q) * q
           rem == v - lo
       IN IF 2 * rem < q THEN lo
          ELSE IF 2 * rem > q THEN lo + q
          ELSE IF (lo \div q) % 2 = 0 THEN lo ELSE lo + q

\* max * (1.0 - (-k * x).exp()) for x = x2/2, an integral k and max = 2^maxLog2:
\* the product -k * x and the scaling by max are exact, the subtraction rounds.
\* The value is m * 2^(maxLog2 - 30).
exponential_decay(x2, k, maxLog2) ==
  [m |-> F32Round(One30 - F32ExpNeg(k * x2)), maxLog2 |-> maxLog2]

PowersOfTwo(max) == {p \in 1..max : 2 ^ FloorLog2(p) = p}
RECURSIVE AbsSum(_, _, _)
\* the sum of |data[j]| for the 0-based indices start <= j < end inside data
AbsSum(data, start, end) ==
  IF start >= end THEN 0
  ELSE (IF end <= Len(data) THEN Abs(data[end]) ELSE 0) + AbsSum(data, start, end - 1)

\* twice the avg of band i: sum of |fft_data[j]| * weight over the band, divided
\* by the band's width; 0.0 for an empty band
BandAvg2(fft_data, num_bands, i) ==
  LET band_width == Len(fft_data) \div num_bands
      start == i * band_width
      end == (i + 1) * band_width
  IN IF end > start
       THEN (2 * AbsSum(fft_data, start, end) * (num_bands - i)) \div (num_bands * band_width)
       ELSE 0

\* the inputs on which every f32 operation of visualize_fft_data before the
\* decay is exact at this resolution: weights and widths are powers of two and
\* every avg is a multiple of 1/2
VisExact(fft_data, num_bands) ==
  LET band_width == Len(fft_data) \div num_bands
  IN /\ num_bands \in PowersOfTwo(num_bands)
     /\ band_width = 0 \/ band_width \in PowersOfTwo(band_width)
     /\ \A i \in 0..(num_bands - 1) :
          band_width > 0 =>
            (2 * AbsSum(fft_data, i * band_width, (i + 1) * band_width) * (num_bands - i))
              % (num_bands * band_width) = 0

\* visualize_fft_data(fft_data, num_bands, decay)
visualize_fft_data(fft_data, num_bands, decay) ==
  [b \in 1..num_bands |->
     exponential_decay(BandAvg2(fft_data, num_bands, b - 1), decay, 0)]

(***************************************************************************)
(* State.                                                                  *)
(***************************************************************************)
VARIABLES
  chunk_size,        \* AudioMonitor.chunk_size
  device_id,         \* AudioMonitor.device_id (NoDevice for None)
  spectrum,          \* the Vec behind AudioMonitor.spectrum: its buffer and its length word
  spectrumLock,      \* holder of the spectrum mutex: 0 free, CallerId, or the session of a relay
  spectrumPoisoned,  \* the spectrum mutex is poisoned
  running,           \* the bool behind AudioMonitor.running
  runningLock,       \* holder of the running mutex: 0 free, CallerId, or the session of a relay
  worker_handle,     \* AudioMonitor.worker_handle: 0 for None, else the session it joins
  caller,            \* the caller's thread: where it is in which call, and the last return
  sess,              \* per session: both threads, the channel, the byte queue
  nSess,             \* sessions launched so far
  aborted,           \* the process was aborted by a panic crossing the binding
  frameLimit,        \* frames the endpoint delivers during one session (fixed by Init)
  published,         \* ghost: the chunk of the last completed publish
  lastRead,          \* ghost: the last get_spectrum result since the last publish
  fnCall,            \* a call of one of the free functions: its arguments, its result
  audio_client,      \* a wasapi AudioClient: its fields, the IAudioClient behind it, its calls
  listener           \* a Listener: its buffer and mutex, the threads using it, what went through

vars == << chunk_size, device_id, spectrum, spectrumLock, spectrumPoisoned, running, runningLock,
           worker_handle, caller, sess, nSess, aborted, frameLimit, published,
           lastRead, fnCall, audio_client, listener >>

Sessions == 1..MaxSessions
CallerId == 0 - 1
\* Option<u32>::None of start's chunk_size argument
NoChunkArg == 0 - 1
ChunkArgs == {NoChunkArg} \cup (1..MaxChunkSize)

\* the other components' variables, which no operation of the controller touches
Elsewhere == << fnCall, audio_client, listener >>

\* Device::get_iaudioclient: a client of the device's direction, not initialized
get_iaudioclient(direction) ==
  [direction |-> direction, sharemode |-> "None", bytes_per_frame |-> 0,
   initialized |-> FALSE, calls |-> 0, fn |-> "", res |-> ""]
\* the client of a render endpoint, before any call
NoClient == get_iaudioclient("Render")

\* the threads that use a Listener: the audio callback and the get_buffer callers
ListenerReaders == {"reader1", "reader2"}
ListenerThreads == {"callback"} \cup ListenerReaders
\* Listener::new: an empty buffer behind a free mutex, no thread inside a call
NewListener ==
  [buffer |-> << >>, lock |-> "", pc |-> [t \in ListenerThreads |-> "idle"],
   data |-> [t \in ListenerThreads |-> << >>], fed |-> << >>, got |-> << >>]

\* no get_spectrum call has returned since the last publish
NoRead == [n |-> 0 - 1, res |-> "", val |-> << >>]
\* what a get_spectrum(n) call handed back
ReadOf(n, res, val) == [n |-> n, res |-> res, val |-> val]

\* no free function has been called
NoCall == [pc |-> "none"]

EmptyVec == [buf |-> << >>, len |-> 0]
WholeVec(data) == [buf |-> data, len |-> Len(data)]
\* the content of memory outside any live buffer, read as an f32
Unowned == [sign |-> 0, exp |-> 255, mant |-> 1]
\* what a reader of the Vec sees: len elements of the buffer; past the buffer's
\* end it reads memory the Vec does not own
VecView(v) == [i \in 1..v.len |-> IF i <= Len(v.buf) THEN v.buf[i] ELSE Unowned]

\* the caller's thread: pc "idle" between calls, "join" inside handle.join(),
\* "gs_locked" holding the spectrum lock, "returned" with a call's result, "dropped".
\* argN and argD are the call's arguments; of a start(), prevD is the device id
\* stored when it was called and dflt whether the default endpoint was found
IdleCaller == [pc |-> "idle", op |-> "", argN |-> 0, argD |-> NoDevice,
               res |-> "", val |-> << >>, seen |-> << >>,
               prevD |-> NoDevice, dflt |-> TRUE]
Pending(pc, op, n, d) == [IdleCaller EXCEPT !.pc = pc, !.op = op, !.argN = n, !.argD = d]
Returned(op, res) == [IdleCaller EXCEPT !.pc = "returned", !.op = op, !.res = res]

NoSession == [relayPc |-> "none", capPc |-> "none", chan |-> << >>,
              rxAlive |-> FALSE, txAlive |-> FALSE, queue |-> << >>,
              capHeld |-> << >>, relayHeld |-> << >>,
              chunk_size |-> 0, device_id |-> NoDevice,
              delivered |-> 0, relayGot |-> 0, streamOn |-> FALSE, capRes |-> "",
              opened |-> NoDevice]

\* the state spawn_audio_monitor_thread leaves: the worker thread about to run,
\* owning both channel ends and the values start() copied for it
NewSession(c, d) == [NoSession EXCEPT !.relayPc = "spawn", !.rxAlive = TRUE,
                                      !.txAlive = TRUE, !.chunk_size = c, !.device_id = d]

\* a session both of whose threads have ended
EndedSession == [NoSession EXCEPT !.relayPc = "done", !.capPc = "done"]

\* AudioMonitor::new
InitController ==
  /\ chunk_size = 2 ^ DefaultChunkLog2
  /\ device_id = NoDevice
  /\ spectrum = EmptyVec
  /\ spectrumLock = 0
  /\ spectrumPoisoned = FALSE
  /\ running = FALSE
  /\ worker_handle = 0

Init ==
  /\ InitController
  /\ caller = IdleCaller
  /\ sess = [s \in Sessions |-> NoSession]
  /\ nSess = 0
  /\ aborted = FALSE
  /\ frameLimit = MaxFrames
  /\ published = << >>
  /\ lastRead = NoRead
  /\ runningLock = 0
  /\ fnCall = NoCall
  /\ audio_client = NoClient
  /\ listener = NewListener

\* a getter that reports running whatever the flag
running_get_Always == TRUE
\* AudioMonitor::running: the flag, false when its lock is poisoned (no thread
\* panics while holding it, so it never is)
running_get == running

\* AudioMonitor::current_device_id
current_device_id == device_id

\* the endpoint's bytes for frame k of a session: channel 0 carries k, channel 1 -k
FrameBytes(k) == LeBytes(F32FromInt(k)) \o LeBytes(F32FromInt(0 - k))
RECURSIVE DeviceBytes(_, _)
\* frames from+1 .. from+n as GetBuffer hands them over
DeviceBytes(from, n) ==
  IF n = 0 THEN << >> ELSE DeviceBytes(from, n - 1) \o FrameBytes(from + n)

(***************************************************************************)
(* The controller's operations, on the caller's thread.                    *)
(***************************************************************************)
Idle == caller.pc = "idle" /\ ~aborted

\* if let Some(id) = &self.device_id { get_output_device_by_id(id).is_some() }
Resolves(id) == id # NoDevice /\ id \in AvailableIds

\* update_device_id that trusts the stored id
update_device_id_Keep(id, dflt) == id
\* update_device_id: keep an id that resolves, else record the default endpoint's
\* id, or None when get_default_device (or its get_id) fails
update_device_id(id, dflt) ==
  IF Resolves(id) THEN id ELSE IF dflt THEN DefaultId ELSE NoDevice

\* start that leaves the chunk size alone
NewChunkSize_Keep(c) == chunk_size
\* if let Some(size) = chunk_size { self.chunk_size = size as usize }
NewChunkSize(c) == IF c # NoChunkArg THEN c ELSE chunk_size

\* start that fails when no endpoint was found
StartResult_NeedsDevice(spawned, dflt) == IF spawned /\ dflt THEN "ok" ELSE "err"
\* start's result: Err only when thread::Builder::spawn failed
StartResult(spawned, dflt) == IF spawned THEN "ok" ELSE "err"

\* a stop() whose guard of the running mutex lives on into the join
FlagGuardInJoin_Held == CallerId
\* the holder of the running mutex when stop() reaches the join: the guard of
\* `if let Ok(mut running) = self.running.lock()` is dropped with that block
FlagGuardInJoin == 0

\* handle.join() returns: there is no handle, or the worker thread has ended
JoinReady_NoWait == TRUE
JoinReady == IF worker_handle = 0 THEN TRUE ELSE sess[worker_handle].relayPc = "done"

\* self.spectrum.lock() on the caller's thread returns once the mutex is free
CallerCanLock_NoLock == TRUE
CallerCanLock == spectrumLock = 0

\* start() after its stop(): chunk size, flag, device id, channel, worker thread;
\* h0 is worker_handle as stop() left it.  thread::Builder::spawn may fail.
StartRest(c, h0) ==
  /\ chunk_size' = NewChunkSize(c)
  /\ running' = TRUE
  /\ \E dflt \in (IF Resolves(device_id) THEN {TRUE} ELSE BOOLEAN), spawned \in BOOLEAN :
       /\ device_id' = update_device_id(device_id, dflt)
       /\ caller' = [Returned("start", StartResult(spawned, dflt))
                       EXCEPT !.argN = c, !.prevD = device_id, !.dflt = dflt]
       /\ IF spawned
            THEN /\ nSess' = nSess + 1
                 /\ sess' = [sess EXCEPT ![nSess + 1] = NewSession(chunk_size', device_id')]
                 /\ worker_handle' = nSess + 1
            ELSE /\ UNCHANGED << nSess, sess >>
                 /\ worker_handle' = h0
  /\ UNCHANGED << spectrum, spectrumLock, spectrumPoisoned, aborted, frameLimit, published,
                  lastRead, Elsewhere >>
  /\ runningLock' = 0

\* start(chunk_size) without its leading self.stop()
Start_NoStop(c) ==
  /\ Idle /\ nSess < MaxSessions
  /\ StartRest(c, worker_handle)

\* start(chunk_size) up to the join inside its stop()
Start(c) ==
  /\ Idle /\ nSess < MaxSessions
  /\ IF running_get
       THEN /\ running' = FALSE
            /\ caller' = Pending("join", "start", c, NoDevice)
            /\ UNCHANGED << chunk_size, device_id, spectrum, spectrumLock, spectrumPoisoned,
                            worker_handle, sess, nSess, aborted, frameLimit, published,
                  lastRead, Elsewhere >>
            /\ runningLock' = FlagGuardInJoin
       ELSE StartRest(c, worker_handle)

StartJoined ==
  /\ caller.pc = "join" /\ caller.op = "start" /\ ~aborted
  /\ JoinReady
  /\ StartRest(caller.argN, 0)

\* stop() up to the join
Stop ==
  /\ Idle
  /\ IF running_get
       THEN /\ running' = FALSE
            /\ caller' = Pending("join", "stop", 0, NoDevice)
       ELSE /\ caller' = Returned("stop", "ok")
            /\ UNCHANGED running
  /\ UNCHANGED << chunk_size, device_id, spectrum, spectrumLock, spectrumPoisoned,
                  worker_handle, sess, nSess, aborted, frameLimit, published,
                  lastRead, Elsewhere >>
  /\ runningLock' = (IF running_get THEN FlagGuardInJoin ELSE 0)

\* a stop() that empties the latest-chunk slot once the worker thread is joined
StopJoined_Clears ==
  /\ caller.pc = "join" /\ caller.op = "stop" /\ ~aborted
  /\ JoinReady
  /\ worker_handle' = 0
  /\ caller' = Returned("stop", "ok")
  /\ spectrum' = EmptyVec
  /\ UNCHANGED << chunk_size, device_id, spectrumLock, spectrumPoisoned,
                  running, sess, nSess, aborted, frameLimit, published,
                  lastRead, Elsewhere >>
  /\ runningLock' = 0

StopJoined ==
  /\ caller.pc = "join" /\ caller.op = "stop" /\ ~aborted
  /\ JoinReady
  /\ worker_handle' = 0
  /\ caller' = Returned("stop", "ok")
  /\ UNCHANGED << chunk_size, device_id, spectrum, spectrumLock, spectrumPoisoned,
                  running, sess, nSess, aborted, frameLimit, published,
                  lastRead, Elsewhere >>
  /\ runningLock' = 0

\* set_device(device_id) up to the join inside its stop()
SetDevice(id) ==
  /\ Idle
  /\ IF device_id = id
       THEN /\ caller' = [Returned("set_device", "ok") EXCEPT !.argD = id]
            /\ UNCHANGED << running, device_id >>
       ELSE IF running_get
         THEN /\ running' = FALSE
              /\ caller' = Pending("join", "set_device", 0, id)
              /\ UNCHANGED device_id
         ELSE /\ device_id' = id
              /\ caller' = [Returned("set_device", "ok") EXCEPT !.argD = id]
              /\ UNCHANGED running
  /\ UNCHANGED << chunk_size, spectrum, spectrumLock, spectrumPoisoned,
                  worker_handle, sess, nSess, aborted, frameLimit, published,
                  lastRead, Elsewhere >>
  /\ runningLock' = (IF device_id # id /\ running_get THEN FlagGuardInJoin ELSE 0)

SetDeviceJoined ==
  /\ caller.pc = "join" /\ caller.op = "set_device" /\ ~aborted
  /\ JoinReady
  /\ worker_handle' = 0
  /\ device_id' = caller.argD
  /\ caller' = [Returned("set_device", "ok") EXCEPT !.argD = caller.argD]
  /\ UNCHANGED << chunk_size, spectrum, spectrumLock, spectrumPoisoned,
                  running, sess, nSess, aborted, frameLimit, published,
                  lastRead, Elsewhere >>
  /\ runningLock' = 0

\* a Drop that releases the fields without calling stop(): the JoinHandle is
\* dropped, which detaches the worker thread
Drop_NoStop ==
  /\ Idle
  /\ caller' = [IdleCaller EXCEPT !.pc = "dropped", !.op = "drop"]
  /\ worker_handle' = 0
  /\ UNCHANGED << chunk_size, device_id, spectrum, spectrumLock, spectrumPoisoned,
                  running, sess, nSess, aborted, frameLimit, published,
                  lastRead, runningLock, Elsewhere >>

\* Drop for AudioMonitor: stop(), after which the controller is gone
Drop ==
  /\ Idle
  /\ IF running_get
       THEN /\ running' = FALSE
            /\ caller' = Pending("join", "drop", 0, NoDevice)
       ELSE /\ caller' = [IdleCaller EXCEPT !.pc = "dropped", !.op = "drop"]
            /\ UNCHANGED running
  /\ UNCHANGED << chunk_size, device_id, spectrum, spectrumLock, spectrumPoisoned,
                  worker_handle, sess, nSess, aborted, frameLimit, published,
                  lastRead, Elsewhere >>
  /\ runningLock' = (IF running_get THEN FlagGuardInJoin ELSE 0)

DropJoined ==
  /\ caller.pc = "join" /\ caller.op = "drop" /\ ~aborted
  /\ JoinReady
  /\ worker_handle' = 0
  /\ caller' = [IdleCaller EXCEPT !.pc = "dropped", !.op = "drop"]
  /\ UNCHANGED << chunk_size, device_id, spectrum, spectrumLock, spectrumPoisoned,
                  running, sess, nSess, aborted, frameLimit, published,
                  lastRead, Elsewhere >>
  /\ runningLock' = 0

\* get_spectrum(num_bands): self.spectrum.lock(); Err when the mutex is poisoned
GetSpectrumLock(n) ==
  /\ Idle
  /\ CallerCanLock
  /\ IF spectrumPoisoned
       THEN /\ caller' = [Returned("get_spectrum", "err") EXCEPT !.argN = n]
            /\ UNCHANGED spectrumLock
       ELSE /\ spectrumLock' = CallerId
            /\ caller' = Pending("gs_locked", "get_spectrum", n, NoDevice)
  /\ UNCHANGED << chunk_size, device_id, spectrum, spectrumPoisoned, running,
                  worker_handle, sess, nSess, aborted, frameLimit, published,
                  runningLock, Elsewhere >>

\* the slot as the closure leaves it: it only borrows the Vec
SlotAfterRead == spectrum

\* the closure run under the lock: zeros for an empty Vec, else analyze_spectrum.
\* A panic inside it unwinds through the guard, which poisons the mutex, and then
\* reaches the binding, where the build either aborts the process or not.
GetSpectrumClosure ==
  /\ caller.pc = "gs_locked" /\ ~aborted
  /\ LET view == VecView(spectrum)
         n == caller.argN
         r == IF spectrum.len = 0 THEN [ok |-> TRUE, val |-> Zeros(n)]
              ELSE analyze_spectrum(view, n)
     IN /\ caller' = [Returned("get_spectrum", IF r.ok THEN "ok" ELSE "panic")
                        EXCEPT !.val = r.val, !.seen = view, !.argN = n]
        /\ spectrumPoisoned' = ~r.ok
        /\ aborted' \in (IF r.ok THEN {FALSE} ELSE BOOLEAN)
  /\ spectrum' = SlotAfterRead
  /\ spectrumLock' = 0
  /\ UNCHANGED << chunk_size, device_id, running, worker_handle, sess, nSess,
                  frameLimit, published, runningLock, Elsewhere >>

\* the two steps of get_spectrum
GetSpectrum(n) == GetSpectrumLock(n) /\ UNCHANGED lastRead
GetSpectrumRead == GetSpectrumClosure /\ UNCHANGED lastRead

\* the same two steps, with the result noted for comparison with the next call's
GetSpectrumNoted(n) ==
  /\ GetSpectrumLock(n)
  /\ lastRead' = IF caller'.pc = "returned" THEN ReadOf(n, caller'.res, caller'.val)
                 ELSE lastRead
GetSpectrumReadNoted ==
  /\ GetSpectrumClosure
  /\ lastRead' = ReadOf(caller.argN, caller'.res, caller'.val)

\* the call's result has been handed to the host
CallerReturn ==
  /\ caller.pc = "returned" /\ ~aborted
  /\ caller' = IdleCaller
  /\ UNCHANGED << chunk_size, device_id, spectrum, spectrumLock, spectrumPoisoned, running,
                  worker_handle, sess, nSess, aborted, frameLimit, published,
                  lastRead, runningLock, Elsewhere >>

(***************************************************************************)
(* The worker ("AudioMonitor") thread of session s: spawn the capture      *)
(* thread, relay chunks into the slot while running, join the capture      *)
(* thread.                                                                 *)
(***************************************************************************)
Others == << chunk_size, device_id, running, worker_handle, caller, nSess, aborted,
            frameLimit, runningLock, Elsewhere >>

\* thread::Builder::spawn of the capture thread; on failure the closure panics
\* and the worker thread ends, dropping both channel ends
RelaySpawnCapture(s) ==
  /\ sess[s].relayPc = "spawn" /\ ~aborted
  /\ \E spawned \in BOOLEAN :
       sess' = [sess EXCEPT ![s] =
                  IF spawned THEN [@ EXCEPT !.relayPc = "check", !.capPc = "init"]
                  ELSE EndedSession]
  /\ UNCHANGED << spectrum, spectrumLock, spectrumPoisoned, published, lastRead >>
  /\ UNCHANGED Others

\* running.lock() on the relay thread returns once the mutex is free; the guard
\* is dropped when the loop condition has been evaluated
RelayCanLockFlag == runningLock = 0

\* the loop condition of process_audio_data; leaving the function drops rx_capt
RelayCheck(s) ==
  /\ sess[s].relayPc = "check" /\ ~aborted
  /\ RelayCanLockFlag
  /\ sess' = [sess EXCEPT ![s] =
                IF running THEN [@ EXCEPT !.relayPc = "recv"]
                ELSE [@ EXCEPT !.relayPc = "join", !.rxAlive = FALSE, !.chan = << >>]]
  /\ UNCHANGED << spectrum, spectrumLock, spectrumPoisoned, published, lastRead >>
  /\ UNCHANGED Others

\* rx_capt.recv_timeout(100 ms): the oldest chunk, Timeout on an empty channel
\* whose sender lives, Disconnected on an empty channel whose sender is gone
RelayRecv(s) ==
  /\ sess[s].relayPc = "recv" /\ ~aborted
  /\ sess' = [sess EXCEPT ![s] =
                IF sess[s].chan # << >>
                  THEN [@ EXCEPT !.relayPc = "pub_lock", !.relayHeld = Head(sess[s].chan),
                                 !.chan = Tail(sess[s].chan),
                                 !.relayGot = @ + Len(Head(sess[s].chan))]
                ELSE IF sess[s].txAlive THEN [@ EXCEPT !.relayPc = "check"]
                ELSE [@ EXCEPT !.relayPc = "join", !.rxAlive = FALSE]]
  /\ UNCHANGED << spectrum, spectrumLock, spectrumPoisoned, published, lastRead >>
  /\ UNCHANGED Others

\* spectrum.lock() on the relay thread returns once the mutex is free
RelayCanLock == spectrumLock = 0

\* if let Ok(mut spec) = spectrum.lock(): a poisoned mutex skips the publish
RelayPubLock(s) ==
  /\ sess[s].relayPc = "pub_lock" /\ ~aborted
  /\ RelayCanLock
  /\ IF spectrumPoisoned
       THEN /\ sess' = [sess EXCEPT ![s].relayPc = "check", ![s].relayHeld = << >>]
            /\ UNCHANGED spectrumLock
       ELSE /\ sess' = [sess EXCEPT ![s].relayPc = "pub_first"]
            /\ spectrumLock' = s
  /\ UNCHANGED << spectrum, spectrumPoisoned, published, lastRead >>
  /\ UNCHANGED Others

\* *spec = samples moves the Vec's words into the slot; the build decides which
\* word is stored first
RelayPubFirst(s) ==
  /\ sess[s].relayPc = "pub_first" /\ ~aborted
  /\ \E word \in {"buf", "len"} :
       IF word = "buf"
         THEN /\ spectrum' = [spectrum EXCEPT !.buf = sess[s].relayHeld]
              /\ sess' = [sess EXCEPT ![s].relayPc = "pub_len"]
         ELSE /\ spectrum' = [spectrum EXCEPT !.len = Len(sess[s].relayHeld)]
              /\ sess' = [sess EXCEPT ![s].relayPc = "pub_buf"]
  /\ UNCHANGED << spectrumLock, spectrumPoisoned, published, lastRead >>
  /\ UNCHANGED Others

\* a relay that keeps the earlier chunks and extends the slot by the new one
RelayPubSecond_Append(s) ==
  /\ sess[s].relayPc \in {"pub_len", "pub_buf"} /\ ~aborted
  /\ spectrum' = WholeVec(published \o sess[s].relayHeld)
  /\ published' = sess[s].relayHeld
  /\ lastRead' = NoRead
  /\ spectrumLock' = 0
  /\ sess' = [sess EXCEPT ![s].relayPc = "check", ![s].relayHeld = << >>]
  /\ UNCHANGED spectrumPoisoned
  /\ UNCHANGED Others

\* the other word is stored and the guard is dropped
RelayPubSecond(s) ==
  /\ sess[s].relayPc \in {"pub_len", "pub_buf"} /\ ~aborted
  /\ spectrum' = WholeVec(sess[s].relayHeld)
  /\ published' = sess[s].relayHeld
  /\ lastRead' = NoRead
  /\ spectrumLock' = 0
  /\ sess' = [sess EXCEPT ![s].relayPc = "check", ![s].relayHeld = << >>]
  /\ UNCHANGED spectrumPoisoned
  /\ UNCHANGED Others

\* capture_thread.join() returns once the capture thread has ended
CaptureJoined(s) == sess[s].capPc = "done"

\* the closure returns: what was moved into the two threads is gone with them
RelayJoin(s) ==
  /\ sess[s].relayPc = "join" /\ ~aborted
  /\ CaptureJoined(s)
  /\ sess' = [sess EXCEPT ![s] = [EndedSession EXCEPT !.streamOn = sess[s].streamOn,
                                                      !.capRes = sess[s].capRes]]
  /\ UNCHANGED << spectrum, spectrumLock, spectrumPoisoned, published, lastRead >>
  /\ UNCHANGED Others

(***************************************************************************)
(* The capture ("LoopbackCapture") thread of session s:                    *)
(* loopback_capture_loop.                                                  *)
(***************************************************************************)
\* a lookup that gives up when the id does not resolve
get_audio_device_Strict(id, dflt) == IF Resolves(id) THEN id ELSE NoDevice
\* get_audio_device(device_id): the endpoint of an id that resolves, else the
\* default endpoint; Err (NoDevice here) when get_default_device fails
get_audio_device(id, dflt) ==
  IF Resolves(id) THEN id ELSE IF dflt THEN DefaultId ELSE NoDevice

\* everything before the loop: endpoint lookup, client initialisation, event
\* handle, start_stream; any failure returns Err and ends the thread.  opened
\* is the endpoint the stream runs on.
CaptureInit(s) ==
  /\ sess[s].capPc = "init" /\ ~aborted
  /\ \E dflt \in (IF Resolves(sess[s].device_id) THEN {TRUE} ELSE BOOLEAN),
        ok \in BOOLEAN :
       LET device == get_audio_device(sess[s].device_id, dflt)
       IN sess' = [sess EXCEPT ![s] =
                     IF device # NoDevice /\ ok
                       THEN [@ EXCEPT !.capPc = "loop", !.streamOn = TRUE,
                                      !.opened = device]
                       ELSE [@ EXCEPT !.capPc = "done", !.txAlive = FALSE,
                                      !.capRes = "err"]]
  /\ UNCHANGED << spectrum, spectrumLock, spectrumPoisoned, published, lastRead >>
  /\ UNCHANGED Others

\* sample_queue.len() >= blockalign * chunk_size
EnoughQueued(s) == Len(sess[s].queue) >= blockalign * sess[s].chunk_size

\* extract_float_samples(&mut sample_queue, chunk_size, blockalign as usize)
ExtractChunk_Mono(s) == extract_float_samples(sess[s].queue, sess[s].chunk_size, SampleBytes)
ExtractChunk(s) == extract_float_samples(sess[s].queue, sess[s].chunk_size, blockalign)

\* top of the loop: extract a chunk when enough bytes are queued
CaptureLoop(s) ==
  /\ sess[s].capPc = "loop" /\ ~aborted
  /\ sess' = [sess EXCEPT ![s] =
                IF EnoughQueued(s)
                  THEN [@ EXCEPT !.capPc = "send", !.capHeld = ExtractChunk(s).samples,
                                 !.queue = ExtractChunk(s).queue]
                  ELSE [@ EXCEPT !.capPc = "read"]]
  /\ UNCHANGED << spectrum, spectrumLock, spectrumPoisoned, published, lastRead >>
  /\ UNCHANGED Others

\* SyncSender::send returns: Err once the receiver is dropped, else as soon as
\* the channel has room
SendReady_Unbounded(s) == TRUE
SendReady(s) == IF sess[s].rxAlive THEN Len(sess[s].chan) < ChannelCap ELSE TRUE

\* a send that never reports the disconnected receiver
SendFails_Never(s) == FALSE
\* tx_capt.send(float_samples).is_err(): the receiver has been dropped
SendFails(s) == ~sess[s].rxAlive

\* a send after which the loop starts over, extracting again before it drains
\* the device
CaptureSend_Continue(s) ==
  /\ sess[s].capPc = "send" /\ ~aborted
  /\ SendReady(s)
  /\ sess' = [sess EXCEPT ![s] =
                IF SendFails(s)
                  THEN [@ EXCEPT !.capPc = "done", !.capHeld = << >>, !.txAlive = FALSE,
                                 !.streamOn = FALSE, !.queue = << >>, !.delivered = 0,
                                 !.capRes = "ok"]
                  ELSE [@ EXCEPT !.capPc = "loop", !.chan = Append(@, sess[s].capHeld),
                                 !.capHeld = << >>]]
  /\ UNCHANGED << spectrum, spectrumLock, spectrumPoisoned, published, lastRead >>
  /\ UNCHANGED Others

\* tx_capt.send(float_samples); on Err: break, stop_stream, return Ok
CaptureSend(s) ==
  /\ sess[s].capPc = "send" /\ ~aborted
  /\ SendReady(s)
  /\ sess' = [sess EXCEPT ![s] =
                IF SendFails(s)
                  THEN [@ EXCEPT !.capPc = "done", !.capHeld = << >>, !.txAlive = FALSE,
                                 !.streamOn = FALSE, !.queue = << >>, !.delivered = 0,
                                 !.capRes = "ok"]
                  ELSE [@ EXCEPT !.capPc = "read", !.chan = Append(@, sess[s].capHeld),
                                 !.capHeld = << >>]]
  /\ UNCHANGED << spectrum, spectrumLock, spectrumPoisoned, published, lastRead >>
  /\ UNCHANGED Others

\* capture_client.read_from_device_to_deque(&mut sample_queue)?: GetBuffer fails
\* (the thread ends with Err, the stream still started, its queue dropped) or
\* hands over a packet of 0 or more frames, appended byte by byte
CaptureRead(s) ==
  /\ sess[s].capPc = "read" /\ ~aborted
  /\ \/ sess' = [sess EXCEPT ![s].capPc = "done", ![s].txAlive = FALSE,
                             ![s].queue = << >>, ![s].delivered = 0,
                             ![s].capRes = "err"]
     \/ \E n \in 0..MaxPacketFrames :
          /\ sess[s].delivered + n <= frameLimit
          /\ sess' = [sess EXCEPT ![s].capPc = "wait",
                                  ![s].queue = @ \o DeviceBytes(sess[s].delivered, n),
                                  ![s].delivered = @ + n]
  /\ UNCHANGED << spectrum, spectrumLock, spectrumPoisoned, published, lastRead >>
  /\ UNCHANGED Others

\* h_event.wait_for_event(100): signalled or timed out, the loop goes on
CaptureWait(s) ==
  /\ sess[s].capPc = "wait" /\ ~aborted
  /\ sess' = [sess EXCEPT ![s].capPc = "loop"]
  /\ UNCHANGED << spectrum, spectrumLock, spectrumPoisoned, published, lastRead >>
  /\ UNCHANGED Others

(***************************************************************************)
(* The program: the caller's calls interleaved with the threads' steps.    *)
(***************************************************************************)
CallerStep ==
  \/ \E c \in ChunkArgs : Start(c)
  \/ StartJoined
  \/ Stop
  \/ StopJoined
  \/ \E id \in DeviceArgs : SetDevice(id)
  \/ SetDeviceJoined
  \/ Drop
  \/ DropJoined
  \/ \E n \in 0..MaxBands : GetSpectrum(n)
  \/ GetSpectrumRead
  \/ CallerReturn

RelayStep(s) ==
  \/ RelaySpawnCapture(s)
  \/ RelayCheck(s)
  \/ RelayRecv(s)
  \/ RelayPubLock(s)
  \/ RelayPubFirst(s)
  \/ RelayPubSecond(s)
  \/ RelayJoin(s)

CaptureStep(s) ==
  \/ CaptureInit(s)
  \/ CaptureLoop(s)
  \/ CaptureSend(s)
  \/ CaptureRead(s)
  \/ CaptureWait(s)

Next ==
  \/ CallerStep
  \/ \E s \in Sessions : RelayStep(s)
  \/ \E s \in Sessions : CaptureStep(s)

Spec == Init /\ [][Next]_vars

\* every thread that can take a step eventually takes one; the caller, once
\* inside handle.join(), returns from it when the joined thread has ended
Fairness ==
  /\ \A s \in Sessions : WF_vars(RelayStep(s)) /\ WF_vars(CaptureStep(s))
  /\ WF_vars(StartJoined) /\ WF_vars(StopJoined) /\ WF_vars(SetDeviceJoined)
  /\ WF_vars(DropJoined) /\ WF_vars(GetSpectrumRead) /\ WF_vars(CallerReturn)

FairSpec == Spec /\ Fairness

(***************************************************************************)
(* One session with a long stream: the controller as start(c) leaves it,   *)
(* the endpoint delivering enough frames to fill the channel.  Chunk size  *)
(* 0 (every iteration sends an empty chunk) is exercised here.             *)
(***************************************************************************)
InitChan ==
  /\ \E c \in 0..1 :
       /\ chunk_size = c
       /\ sess = [s \in Sessions |->
                    IF s = 1 THEN NewSession(c, DefaultId) ELSE NoSession]
  /\ device_id = DefaultId
  /\ spectrum = EmptyVec
  /\ spectrumLock = 0
  /\ spectrumPoisoned = FALSE
  /\ running = TRUE
  /\ worker_handle = 1
  /\ caller = IdleCaller
  /\ nSess = 1
  /\ aborted = FALSE
  /\ frameLimit = ChannelCap + MaxFrames
  /\ published = << >>
  /\ lastRead = NoRead
  /\ runningLock = 0
  /\ fnCall = NoCall
  /\ audio_client = NoClient
  /\ listener = NewListener

NextChan ==
  \/ Stop
  \/ StopJoined
  \/ CallerReturn
  \/ \E s \in Sessions : RelayStep(s)
  \/ \E s \in Sessions : CaptureStep(s)

SpecChan == InitChan /\ [][NextChan]_vars

(***************************************************************************)
(* analyze_spectrum on its own: a stopped controller whose slot holds any  *)
(* chunk of integral samples, and get_spectrum called on it.               *)
(***************************************************************************)
SampleSet == {F32FromInt(v) : v \in (0 - MaxAmp)..MaxAmp}
Chunks(maxLen) == UNION {[1..n -> SampleSet] : n \in 1..maxLen}

InitFft ==
  /\ \E chunk \in Chunks(FftMaxLen) :
       /\ spectrum = WholeVec(chunk)
       /\ published = chunk
       /\ chunk_size = Len(chunk)
       /\ sess = [s \in Sessions |->
                    IF s = 1 THEN EndedSession ELSE NoSession]
  /\ device_id = DefaultId
  /\ spectrumLock = 0
  /\ spectrumPoisoned = FALSE
  /\ running = FALSE
  /\ worker_handle = 0
  /\ caller = IdleCaller
  /\ nSess = 1
  /\ aborted = FALSE
  /\ frameLimit = MaxFrames
  /\ lastRead = NoRead
  /\ runningLock = 0
  /\ fnCall = NoCall
  /\ audio_client = NoClient
  /\ listener = NewListener

NextFft ==
  \/ \E n \in 0..FftMaxBands : GetSpectrumNoted(n)
  \/ GetSpectrumReadNoted
  \/ CallerReturn

SpecFft == InitFft /\ [][NextFft]_vars

(***************************************************************************)
(* Extraction on its own: a running session whose capture thread is at the *)
(* top of its loop with any of a family of byte queues, the endpoint       *)
(* silent from then on.                                                    *)
(***************************************************************************)
\* byte queues of length len whose bytes all differ from their neighbours
ByteQueue(len, first, step) == [i \in 1..len |-> (first + step * (i - 1)) % 256]
ByteQueues ==
  {ByteQueue(len, first, step) :
     len \in 0..(blockalign * ExtMaxFrames + ExtMaxSpare),
     first \in {0, 100, 250}, step \in {1, 37}}

InitExtract ==
  /\ \E c \in 1..ExtMaxFrames, q \in ByteQueues :
       /\ chunk_size = c
       /\ sess = [s \in Sessions |->
                    IF s = 1
                      THEN [NewSession(c, DefaultId) EXCEPT
                              !.relayPc = "check", !.capPc = "loop",
                              !.streamOn = TRUE, !.queue = q,
                              !.opened = DefaultId]
                      ELSE NoSession]
  /\ device_id = DefaultId
  /\ spectrum = EmptyVec
  /\ spectrumLock = 0
  /\ spectrumPoisoned = FALSE
  /\ running = TRUE
  /\ worker_handle = 1
  /\ caller = IdleCaller
  /\ nSess = 1
  /\ aborted = FALSE
  /\ frameLimit = 0
  /\ published = << >>
  /\ lastRead = NoRead
  /\ runningLock = 0
  /\ fnCall = NoCall
  /\ audio_client = NoClient
  /\ listener = NewListener

NextExtract ==
  \/ \E s \in Sessions : CaptureLoop(s)
  \/ \E s \in Sessions : CaptureSend(s)
  \/ \E s \in Sessions : CaptureRead(s)
  \/ \E s \in Sessions : CaptureWait(s)
  \/ \E s \in Sessions : RelayCheck(s)
  \/ \E s \in Sessions : RelayRecv(s)
  \/ \E s \in Sessions : RelayPubLock(s)
  \/ \E s \in Sessions : RelayPubFirst(s)
  \/ \E s \in Sessions : RelayPubSecond(s)

SpecExtract == InitExtract /\ [][NextExtract]_vars

(***************************************************************************)
(* A session of a chunk size that is not a power of two: the state         *)
(* start(Some(OddChunkSize)) leaves on a new controller, then the threads' *)
(* steps and get_spectrum calls.                                           *)
(***************************************************************************)
InitOdd ==
  /\ chunk_size = OddChunkSize
  /\ device_id = DefaultId
  /\ spectrum = EmptyVec
  /\ spectrumLock = 0
  /\ spectrumPoisoned = FALSE
  /\ running = TRUE
  /\ worker_handle = 1
  /\ caller = IdleCaller
  /\ sess = [s \in Sessions |->
               IF s = 1 THEN NewSession(OddChunkSize, DefaultId) ELSE NoSession]
  /\ nSess = 1
  /\ aborted = FALSE
  /\ frameLimit = OddChunkSize + MaxFrames
  /\ published = << >>
  /\ lastRead = NoRead
  /\ runningLock = 0
  /\ fnCall = NoCall
  /\ audio_client = NoClient
  /\ listener = NewListener

NextOdd ==
  \/ \E n \in 1..MaxBands : GetSpectrum(n)
  \/ GetSpectrumRead
  \/ CallerReturn
  \/ \E s \in Sessions : RelayStep(s)
  \/ \E s \in Sessions : CaptureStep(s)

SpecOdd == InitOdd /\ [][NextOdd]_vars

(***************************************************************************)
(* The decay-smoothing path on its own: a call of exponential_decay or of  *)
(* visualize_fft_data with any of a family of arguments, and its return.   *)
(***************************************************************************)
VisData == UNION {[1..n -> (0 - MaxVisAmp)..MaxVisAmp] : n \in 1..MaxVisLen}

DecayCalls ==
  {[pc |-> "call", fn |-> "exponential_decay", x2 |-> x2, k |-> k, maxLog2 |-> e,
    data |-> << >>, n |-> 0, out |-> << >>] :
     x2 \in 0..MaxDecayX2, k \in 1..MaxDecayK, e \in 0..MaxDecayMaxLog2}
VisCalls ==
  {[pc |-> "call", fn |-> "visualize_fft_data", x2 |-> 0, k |-> k, maxLog2 |-> 0,
    data |-> d, n |-> n, out |-> << >>] :
     d \in VisData, n \in 1..MaxVisBands, k \in 1..MaxDecayK}

InitDecay ==
  /\ InitController
  /\ caller = IdleCaller
  /\ sess = [s \in Sessions |-> NoSession]
  /\ nSess = 0
  /\ aborted = FALSE
  /\ frameLimit = MaxFrames
  /\ published = << >>
  /\ lastRead = NoRead
  /\ runningLock = 0
  /\ fnCall \in DecayCalls \cup {c \in VisCalls : VisExact(c.data, c.n)}
  /\ audio_client = NoClient
  /\ listener = NewListener

ExponentialDecay ==
  /\ fnCall.pc = "call" /\ fnCall.fn = "exponential_decay"
  /\ fnCall' = [fnCall EXCEPT !.pc = "done",
                   !.out = << exponential_decay(fnCall.x2, fnCall.k, fnCall.maxLog2) >>]
  /\ UNCHANGED << chunk_size, device_id, spectrum, spectrumLock, spectrumPoisoned, running,
                  worker_handle, caller, sess, nSess, aborted, frameLimit, published,
                  lastRead, runningLock, audio_client, listener >>

VisualizeFftData ==
  /\ fnCall.pc = "call" /\ fnCall.fn = "visualize_fft_data"
  /\ fnCall' = [fnCall EXCEPT !.pc = "done",
                   !.out = visualize_fft_data(fnCall.data, fnCall.n, fnCall.k)]
  /\ UNCHANGED << chunk_size, device_id, spectrum, spectrumLock, spectrumPoisoned, running,
                  worker_handle, caller, sess, nSess, aborted, frameLimit, published,
                  lastRead, runningLock, audio_client, listener >>

NextDecay ==
  \/ ExponentialDecay
  \/ VisualizeFftData

SpecDecay == InitDecay /\ [][NextDecay]_vars

(***************************************************************************)
(* The band loop of analyze_spectrum on its own: any array of fft_size / 2 *)
(* magnitudes, fft_size a power of two, and any band count >= 1.           *)
(***************************************************************************)
MagArrays == UNION {[1..h -> 0..MaxMag] : h \in {0} \cup PowersOfTwo(MaxBins)}

BandCalls ==
  {[pc |-> "call", fn |-> "band_loop", x2 |-> 0, k |-> 0, maxLog2 |-> 0,
    data |-> m, n |-> n, out |-> << >>] :
     m \in MagArrays, n \in 1..MaxBandCount}

InitBands ==
  /\ InitController
  /\ caller = IdleCaller
  /\ sess = [s \in Sessions |-> NoSession]
  /\ nSess = 0
  /\ aborted = FALSE
  /\ frameLimit = MaxFrames
  /\ published = << >>
  /\ lastRead = NoRead
  /\ runningLock = 0
  /\ fnCall \in BandCalls
  /\ audio_client = NoClient
  /\ listener = NewListener

\* lines 31-40 of analyze_spectrum on finite magnitudes
AnalyzeBands ==
  /\ fnCall.pc = "call" /\ fnCall.fn = "band_loop"
  /\ fnCall' = [fnCall EXCEPT !.pc = "done",
                   !.out = BandLoop([j \in 1..Len(fnCall.data) |->
                                       [nan |-> FALSE, v |-> fnCall.data[j]]],
                                    2 * Len(fnCall.data), fnCall.n)]
  /\ UNCHANGED << chunk_size, device_id, spectrum, spectrumLock, spectrumPoisoned, running,
                  worker_handle, caller, sess, nSess, aborted, frameLimit, published,
                  lastRead, runningLock, audio_client, listener >>

NextBands == AnalyzeBands

SpecBands == InitBands /\ [][NextBands]_vars

(***************************************************************************)
(* One running session under a fair scheduler, with get_spectrum and stop  *)
(* called on it: the state start(c) leaves, the endpoint delivering        *)
(* MaxFrames frames.                                                       *)
(***************************************************************************)
InitFlow ==
  /\ \E c \in 1..MaxChunkSize :
       /\ chunk_size = c
       /\ sess = [s \in Sessions |->
                    IF s = 1 THEN NewSession(c, DefaultId) ELSE NoSession]
  /\ device_id = DefaultId
  /\ spectrum = EmptyVec
  /\ spectrumLock = 0
  /\ spectrumPoisoned = FALSE
  /\ running = TRUE
  /\ worker_handle = 1
  /\ caller = IdleCaller
  /\ nSess = 1
  /\ aborted = FALSE
  /\ frameLimit = MaxFrames
  /\ published = << >>
  /\ lastRead = NoRead
  /\ runningLock = 0
  /\ fnCall = NoCall
  /\ audio_client = NoClient
  /\ listener = NewListener

NextFlow ==
  \/ \E n \in 0..MaxBands : GetSpectrum(n)
  \/ GetSpectrumRead
  \/ Stop
  \/ StopJoined
  \/ CallerReturn
  \/ \E s \in Sessions : RelayStep(s)
  \/ \E s \in Sessions : CaptureStep(s)

\* every thread that can take a step eventually takes one, a join returns once
\* the joined thread has ended, and the worker thread, which asks for the slot's
\* lock again and again while the caller takes and releases it, gets it
FlowFairness ==
  /\ \A s \in Sessions : WF_vars(RelayStep(s)) /\ WF_vars(CaptureStep(s))
  /\ \A s \in Sessions : SF_vars(RelayPubLock(s))
  /\ WF_vars(StopJoined) /\ WF_vars(GetSpectrumRead) /\ WF_vars(CallerReturn)

SpecFlow == InitFlow /\ [][NextFlow]_vars /\ FlowFairness

(***************************************************************************)
(* The controller's variables, and a controller on which nothing is        *)
(* called: the state the other components' specifications leave it in.     *)
(***************************************************************************)
ControllerVars ==
  << chunk_size, device_id, spectrum, spectrumLock, spectrumPoisoned, running, runningLock,
     worker_handle, caller, sess, nSess, aborted, frameLimit, published, lastRead >>

NoMonitoring ==
  /\ InitController
  /\ caller = IdleCaller
  /\ sess = [s \in Sessions |-> NoSession]
  /\ nSess = 0
  /\ aborted = FALSE
  /\ frameLimit = MaxFrames
  /\ published = << >>
  /\ lastRead = NoRead
  /\ runningLock = 0

(***************************************************************************)
(* wasapi::AudioClient on its own: a client as get_iaudioclient returns    *)
(* it, and up to MaxClientCalls calls of initialize_client and of          *)
(* get_available_space_in_frames with any arguments.                       *)
(***************************************************************************)
Directions == {"Render", "Capture"}
ShareModes == {"Shared", "Exclusive"}
\* wavefmt.get_blockalign() of the formats tried: 32-bit float, mono and stereo
BlockAligns == {SampleBytes, blockalign}

\* IAudioClient::Initialize succeeds or fails on a client not yet initialized and
\* fails on an initialized one
InitializeOutcomes(self) == IF self.initialized THEN {FALSE} ELSE BOOLEAN

\* AudioClient::initialize_client(wavefmt, period, direction, sharemode, convert):
\* the client and the result it leaves; ok is the outcome of Initialize
initialize_client(self, align, direction, sharemode, convert, ok) ==
  IF sharemode = "Exclusive" /\ convert
    THEN [self EXCEPT !.res = "AutomaticFormatConversionInExclusiveMode"]
  ELSE IF self.direction = "Render" /\ direction = "Capture" /\ sharemode = "Exclusive"
    THEN [self EXCEPT !.res = "LoopbackWithExclusiveMode"]
  ELSE IF self.direction = "Capture" /\ direction = "Render"
    THEN [self EXCEPT !.res = "RenderToCaptureDevice"]
  ELSE IF ~ok
    THEN [self EXCEPT !.sharemode = sharemode, !.res = "Windows"]
  ELSE [self EXCEPT !.sharemode = sharemode, !.bytes_per_frame = align,
                    !.initialized = TRUE, !.res = "Ok"]

\* AudioClient::get_available_space_in_frames: ClientNotInit without a sharemode,
\* else what GetBufferSize and GetCurrentPadding answer
get_available_space_in_frames(self) ==
  IF self.sharemode = "None" THEN "ClientNotInit"
  ELSE IF self.initialized THEN "Ok"
  ELSE "Windows"

InitClient ==
  /\ NoMonitoring
  /\ fnCall = NoCall
  /\ audio_client \in {get_iaudioclient(d) : d \in Directions}
  /\ listener = NewListener

InitializeClient ==
  /\ audio_client.calls < MaxClientCalls
  /\ \E align \in BlockAligns, direction \in Directions, sharemode \in ShareModes,
        convert \in BOOLEAN, ok \in InitializeOutcomes(audio_client) :
       audio_client' =
         [initialize_client(audio_client, align, direction, sharemode, convert, ok)
            EXCEPT !.calls = @ + 1, !.fn = "initialize_client"]
  /\ UNCHANGED << ControllerVars, fnCall, listener >>

GetAvailableSpaceInFrames ==
  /\ audio_client.calls < MaxClientCalls
  /\ audio_client' = [audio_client EXCEPT
                        !.calls = @ + 1, !.fn = "get_available_space_in_frames",
                        !.res = get_available_space_in_frames(audio_client)]
  /\ UNCHANGED << ControllerVars, fnCall, listener >>

NextClient ==
  \/ InitializeClient
  \/ GetAvailableSpaceInFrames

SpecClient == InitClient /\ [][NextClient]_vars

(***************************************************************************)
(* The Listener on its own: the audio callback appending slices of up to   *)
(* MaxCallbackLen samples, MaxListenerSamples in all, and two threads      *)
(* calling get_buffer.  The k-th sample fed has the value k.               *)
(***************************************************************************)
InitListener ==
  /\ NoMonitoring
  /\ fnCall = NoCall
  /\ audio_client = NoClient
  /\ listener = NewListener

\* the host calls the closure with a slice of n samples
CallbackCall(n) ==
  /\ listener.pc["callback"] = "idle"
  /\ Len(listener.fed) + n <= MaxListenerSamples
  /\ LET data == [i \in 1..n |-> Len(listener.fed) + i]
     IN listener' = [listener EXCEPT !.pc["callback"] = "lock",
                                     !.data["callback"] = data,
                                     !.fed = @ \o data]
  /\ UNCHANGED << ControllerVars, fnCall, audio_client >>

\* a lock() that returns whoever holds the mutex
ListenerCanLock_NoLock == TRUE
\* buffer.lock() returns once the mutex is free
ListenerCanLock == listener.lock = ""

\* let mut buf = buffer.lock().unwrap() in the closure
CallbackLock ==
  /\ listener.pc["callback"] = "lock"
  /\ ListenerCanLock
  /\ listener' = [listener EXCEPT !.pc["callback"] = "extend", !.lock = "callback"]
  /\ UNCHANGED << ControllerVars, fnCall, audio_client >>

\* buf.extend_from_slice(data); the guard is dropped as the closure returns
CallbackExtend ==
  /\ listener.pc["callback"] = "extend"
  /\ listener' = [listener EXCEPT !.pc["callback"] = "idle",
                                  !.buffer = @ \o listener.data["callback"],
                                  !.data["callback"] = << >>,
                                  !.lock = ""]
  /\ UNCHANGED << ControllerVars, fnCall, audio_client >>

\* get_buffer on thread r: let mut buf = self.buffer.lock().unwrap()
GetBufferLock(r) ==
  /\ listener.pc[r] = "idle"
  /\ ListenerCanLock
  /\ listener' = [listener EXCEPT !.pc[r] = "clone", !.data[r] = << >>, !.lock = r]
  /\ UNCHANGED << ControllerVars, fnCall, audio_client >>

\* let data = buf.clone()
GetBufferClone(r) ==
  /\ listener.pc[r] = "clone"
  /\ listener' = [listener EXCEPT !.pc[r] = "clear", !.data[r] = listener.buffer]
  /\ UNCHANGED << ControllerVars, fnCall, audio_client >>

\* buf.clear(); data is returned and the guard dropped
GetBufferClear(r) ==
  /\ listener.pc[r] = "clear"
  /\ listener' = [listener EXCEPT !.pc[r] = "idle", !.buffer = << >>, !.lock = "",
                                  !.got = @ \o listener.data[r]]
  /\ UNCHANGED << ControllerVars, fnCall, audio_client >>

NextListener ==
  \/ \E n \in 0..MaxCallbackLen : CallbackCall(n)
  \/ CallbackLock
  \/ CallbackExtend
  \/ \E r \in ListenerReaders : GetBufferLock(r)
  \/ \E r \in ListenerReaders : GetBufferClone(r)
  \/ \E r \in ListenerReaders : GetBufferClear(r)

SpecListener == InitListener /\ [][NextListener]_vars

(***************************************************************************)
(* Properties.                                                             *)
(***************************************************************************)
RelayAlive(s) == sess[s].relayPc \notin {"none", "done"}
CaptureAlive(s) == sess[s].capPc \notin {"none", "done"}
GotSpectrum == caller.pc = "returned" /\ caller.op = "get_spectrum"
\* the step in which get_spectrum reads the slot
ReadsSlot == caller.pc = "gs_locked" /\ caller'.pc = "returned"

\* C1: every stop() made while monitoring is running eventually returns,
\* whatever the endpoint delivers.
C1_StopReturns ==
  (caller.pc = "join" /\ caller.op = "stop") ~> (caller.pc = "returned")

\* the controller is stopped and no call is waiting in a join
C2_Stopped == ~running_get /\ caller.pc # "join"

\* C2: after stop() has returned, and until the next start(), running() is
\* false, no relay or capture thread is alive and the slot is not modified.
C2_AfterStop ==
  /\ [](C2_Stopped => \A s \in Sessions : ~RelayAlive(s) /\ ~CaptureAlive(s))
  /\ []((caller.pc = "returned" /\ caller.op = "stop") => C2_Stopped)
  /\ [][C2_Stopped => spectrum' = spectrum]_vars
C2_Witness ==
  /\ caller.pc = "returned" /\ caller.op = "stop"
  /\ nSess = 1 /\ sess[1].relayPc = "done" /\ sess[1].streamOn = FALSE
  /\ spectrum.len > 0

\* C3: at most one capture thread and at most one relay thread are alive.
C3_OneWorker ==
  /\ Cardinality({s \in Sessions : RelayAlive(s)}) <= 1
  /\ Cardinality({s \in Sessions : CaptureAlive(s)}) <= 1
C3_Witness ==
  /\ nSess = 2 /\ sess[1].capPc = "done" /\ published # << >>
  /\ RelayAlive(2) /\ sess[2].capPc = "loop"

\* C4: for a published chunk of any length L >= 1, zero-padded to F, and every
\* num_bands in [1, F/2], get_spectrum returns normally, with num_bands values.
C4_LengthWithoutPanic ==
  (GotSpectrum /\ Len(caller.seen) >= 1
     /\ caller.argN \in 1..(next_power_of_two(Len(caller.seen)) \div 2))
    => (caller.res = "ok" /\ Len(caller.val) = caller.argN)

\* C5: while no chunk has been published, get_spectrum(n) returns n zeros and
\* no error, for every n >= 0, before start, while running and after stop.
C5_ZerosBeforePublish ==
  [][(ReadsSlot /\ published = << >>)
       => /\ caller'.res = "ok"
          /\ Len(caller'.val) = caller.argN
          /\ \A i \in 1..caller.argN : caller'.val[i] = "zero"]_vars
C5_Witness ==
  /\ GotSpectrum /\ caller.res = "ok" /\ caller.argN = MaxBands
  /\ published = << >> /\ running /\ nSess = 1 /\ sess[1].capPc = "wait"

\* C6: every value get_spectrum returns is a non-negative number, for every
\* published chunk and every num_bands >= 1.
C6_NonNegative ==
  (GotSpectrum /\ caller.res = "ok" /\ Len(caller.seen) >= 1 /\ caller.argN >= 1)
    => \A i \in 1..Len(caller.val) : caller.val[i] \in {"zero", "pos"}

\* C7: extracting N stereo frames removes exactly the first 8N bytes of the
\* queue, keeps the rest in order, and sample k is the little-endian f32 of
\* bytes [8k, 8k+4), the channel-1 bytes [8k+4, 8k+8) being discarded.
C7_Extraction ==
  [][\A s \in Sessions :
       (sess[s].capPc = "loop" /\ sess'[s].capPc = "send") =>
         LET q == sess[s].queue
             N == sess[s].chunk_size
             got == sess'[s].capHeld
         IN /\ Len(q) >= 8 * N
            /\ sess'[s].queue = SubSeq(q, 8 * N + 1, Len(q))
            /\ Len(got) = N
            /\ \A k \in 0..(N - 1) : LeBytes(got[k + 1]) = SubSeq(q, 8 * k + 1, 8 * k + 4)]_vars
C7_Witness ==
  /\ sess[1].capPc = "send" /\ sess[1].chunk_size = 2
  /\ Len(sess[1].capHeld) = 2 /\ Len(sess[1].queue) = 3

\* the chunk of the endpoint's stream that starts after frame `from`
StreamChunk(s, from) == [i \in 1..sess[s].chunk_size |-> F32FromInt(from + i)]
\* 1 when the capture thread holds a chunk it has not yet sent
InFlight(s) == IF sess[s].capPc = "send" THEN 1 ELSE 0

\* C8: while the relay holds the receiver, the chunks in flight are the
\* consecutive chunks of the stream, oldest first, none missing or repeated,
\* the channel holds at most 10 of them, and a chunk that finds it full stays
\* with the capture thread.
C8_FifoBounded ==
  \A s \in Sessions :
    (sess[s].rxAlive /\ sess[s].capPc \notin {"none", "init"}) =>
      LET c == sess[s].chunk_size
          got == sess[s].relayGot
          n == Len(sess[s].chan)
      IN /\ n <= ChannelCap
         /\ \A i \in 1..n : sess[s].chan[i] = StreamChunk(s, got + (i - 1) * c)
         /\ sess[s].relayPc \in {"pub_lock", "pub_first", "pub_len", "pub_buf"}
              => sess[s].relayHeld = StreamChunk(s, got - c)
         /\ sess[s].capPc = "send" => sess[s].capHeld = StreamChunk(s, got + n * c)
         /\ CaptureAlive(s) => sess[s].queue
              = DeviceBytes(got + (n + InFlight(s)) * c,
                            sess[s].delivered - (got + (n + InFlight(s)) * c))
C8_Witness ==
  /\ sess[1].rxAlive /\ sess[1].chunk_size = 1
  /\ Len(sess[1].chan) = ChannelCap /\ sess[1].capPc = "send"
  /\ sess[1].relayGot > 0

\* C9: get_spectrum computes from one complete chunk: the chunk of the last
\* completed publish, or the whole chunk of a publish in progress.
C9_WholeChunk ==
  [][ReadsSlot =>
       \/ caller'.seen = published
       \/ \E s \in Sessions :
            /\ sess[s].relayPc \in {"pub_first", "pub_len", "pub_buf"}
            /\ caller'.seen = sess[s].relayHeld]_vars
C9_Witness ==
  /\ GotSpectrum /\ Len(caller.seen) = 2 /\ nSess = 2
  /\ \E s \in Sessions : sess[s].relayPc = "pub_lock"

\* C10: no send on the channel succeeds after stop() has set the running flag
\* to false.
C10_NoSendAfterStop ==
  [][\A s \in Sessions :
       ~running => Len(sess'[s].chan) <= Len(sess[s].chan)]_vars

\* the step in which a call of op returns
Returns(op) == caller.pc # "returned" /\ caller'.pc = "returned" /\ caller'.op = op

\* the flag is true and the worker thread of the last start() is alive
Monitoring ==
  running_get /\ (IF worker_handle = 0 THEN FALSE ELSE RelayAlive(worker_handle))

\* C11: when a set_device(id) made while monitoring is running returns, the
\* flag is false, no thread is alive and the stored id is id, whether or not
\* id equals the id stored before.
C11_SetDeviceStops ==
  [][(Returns("set_device") /\ (caller.pc = "join" \/ Monitoring))
       => /\ ~running_get'
          /\ \A s \in Sessions : /\ sess'[s].relayPc \in {"none", "done"}
                                  /\ sess'[s].capPc \in {"none", "done"}
          /\ current_device_id' = caller'.argD]_vars

\* C12: a start() called with an unresolvable id stored, the default endpoint
\* existing, leaves current_device_id() at the default endpoint's id.
C12_FallsBackToDefault ==
  (caller.pc = "returned" /\ caller.op = "start" /\ caller.prevD = StaleId
     /\ caller.dflt)
    => current_device_id = DefaultId
C12_Witness ==
  /\ caller.pc = "returned" /\ caller.op = "start" /\ caller.res = "ok"
  /\ caller.prevD = StaleId /\ caller.dflt /\ current_device_id = DefaultId
  /\ sess[nSess].device_id = DefaultId

\* C13: when start(c) returns success, every earlier session has ended, the
\* flag is true, exactly one new worker has been launched, and chunk_size()
\* is c if c was given and the previous chunk size otherwise.
C13_StartContract ==
  [][(Returns("start") /\ caller'.res = "ok")
       => /\ running_get'
          /\ nSess' = nSess + 1 /\ worker_handle' = nSess'
          /\ sess'[nSess'].relayPc = "spawn"
          /\ \A s \in Sessions \ {nSess'} :
               /\ sess'[s].relayPc \in {"none", "done"}
               /\ sess'[s].capPc \in {"none", "done"}
          /\ chunk_size' = IF caller'.argN # NoChunkArg THEN caller'.argN
                                                         ELSE chunk_size]_vars
C13_Witness ==
  /\ caller.pc = "returned" /\ caller.op = "start" /\ caller.res = "ok"
  /\ caller.argN = 1 /\ chunk_size = 1 /\ nSess = 2 /\ sess[1].relayPc = "done"
  /\ published # << >>

\* C14: start() succeeds exactly when the worker thread was spawned, whatever
\* the endpoint lookups give; a capture thread that fails before its loop
\* changes neither the caller's state nor the slot, and its session never
\* relays a chunk.
C14_StartIgnoresDeviceFailure ==
  /\ [][Returns("start") => (caller'.res = "ok" <=> nSess' = nSess + 1)]_vars
  /\ [][\A s \in Sessions :
          (sess[s].capPc = "init" /\ sess'[s].capPc = "done")
            => caller' = caller /\ spectrum' = spectrum]_vars
  /\ [](\A s \in Sessions :
          (sess[s].capRes = "err" /\ ~sess[s].streamOn)
            => sess[s].relayGot = 0 /\ sess[s].chan = << >>)
C14_Witness ==
  /\ running_get /\ worker_handle = 1 /\ current_device_id = NoDevice
  /\ sess[1].capRes = "err" /\ ~sess[1].streamOn /\ sess[1].relayPc = "recv"
  /\ spectrum = EmptyVec

\* the relay of s holds no chunk and its channel is empty
Drained(s) ==
  /\ sess[s].chan = << >>
  /\ sess[s].relayPc \notin {"pub_lock", "pub_first", "pub_len", "pub_buf"}
\* the capture thread of the last session ended with an error and every chunk
\* it had sent has been relayed
FrozenByError == nSess > 0 /\ sess[nSess].capRes = "err" /\ Drained(nSess)

\* the slot and the sessions stay as they are once the capture thread has
\* failed and the channel is drained, until a start()
C15_Frozen ==
  [][FrozenByError
       => /\ spectrum' = spectrum
          /\ nSess' # nSess => caller'.op = "start"
          /\ ReadsSlot => caller'.seen = published]_vars

\* C15: once the capture thread has ended with an error and the channel is
\* drained, no session is started but by start(), the slot does not change, and
\* get_spectrum(n) returns n values computed from the last chunk (n zeros if
\* there is none), without error.
C15_FrozenAfterCaptureError ==
  [][FrozenByError
       => /\ spectrum' = spectrum
          /\ nSess' # nSess => caller'.op = "start"
          /\ Returns("get_spectrum")
               => /\ caller'.res = "ok"
                  /\ Len(caller'.val) = caller'.argN
                  /\ caller'.seen = published
                  /\ published = << >>
                       => \A i \in 1..caller'.argN : caller'.val[i] = "zero"]_vars

\* C16: in the capture loop a wait timeout, a wait error or a failed buffer
\* read does not end the capture thread.
C16_GlitchKeepsLoop ==
  [][\A s \in Sessions :
       sess[s].capPc \in {"read", "wait"} => sess'[s].capPc # "done"]_vars

\* C17: a send on a channel whose receiver is dropped fails; the capture thread
\* then stops the stream and returns Ok, and no chunk enters the channel once
\* the receiver is gone.
C17_SendFailureExits ==
  /\ [][\A s \in Sessions :
          (sess[s].capPc = "send" /\ ~sess[s].rxAlive /\ sess'[s].capPc # "send")
            => /\ sess'[s].capPc = "done" /\ sess'[s].capRes = "ok"
               /\ ~sess'[s].streamOn /\ ~sess'[s].txAlive
               /\ sess'[s].chan = sess[s].chan]_vars
  /\ [][\A s \in Sessions :
          ~sess[s].rxAlive => Len(sess'[s].chan) <= Len(sess[s].chan)]_vars
C17_Witness ==
  /\ sess[1].capPc = "done" /\ sess[1].capRes = "ok" /\ ~sess[1].streamOn
  /\ sess[1].relayPc = "join" /\ ~running_get /\ published # << >>

\* C18: a get_spectrum(n) that finds the slot's lock poisoned returns n zeros,
\* not an error.
C18_PoisonIsNoData ==
  [][(Returns("get_spectrum") /\ spectrumPoisoned)
       => caller'.res = "ok" /\ caller'.val = Zeros(caller'.argN)]_vars

\* the chunks session s holds anywhere between extraction and publication
ChunksOf(s) ==
  {sess[s].chan[i] : i \in 1..Len(sess[s].chan)}
    \cup (IF sess[s].capPc = "send" THEN {sess[s].capHeld} ELSE {})
    \cup (IF sess[s].relayPc \in {"pub_lock", "pub_first", "pub_len", "pub_buf"}
            THEN {sess[s].relayHeld} ELSE {})

\* C19: a live session's chunk size does not change and is the controller's
\* chunk size at its start; chunk_size() changes only as a start() returns,
\* with no thread of an earlier session alive; every chunk of a session has
\* the session's chunk size.
C19_ChunkSizeFixed ==
  /\ [][\A s \in Sessions :
          /\ (RelayAlive(s) /\ sess'[s].relayPc # "done")
               => sess'[s].chunk_size = sess[s].chunk_size
          /\ (sess[s].relayPc = "none" /\ sess'[s].relayPc # "none")
               => sess'[s].chunk_size = chunk_size']_vars
  /\ [][chunk_size' # chunk_size
          => /\ Returns("start")
             /\ \A s \in Sessions : ~RelayAlive(s) /\ ~CaptureAlive(s)]_vars
  /\ [](\A s \in Sessions : \A c \in ChunksOf(s) : Len(c) = sess[s].chunk_size)
C19_Witness ==
  /\ nSess = 2 /\ sess[1].relayPc = "done" /\ Len(published) = 2
  /\ sess[2].chunk_size = 1 /\ chunk_size = 1 /\ Len(sess[2].chan) = 1
  /\ sess[2].capPc = "send"

\* C20: stop() on a controller whose flag is false returns at once and leaves
\* the flag, device id, chunk size, slot, handle and threads as they are.
C20_StopIdempotent ==
  [][(Idle /\ ~running /\ caller'.op = "stop" /\ caller' # caller)
       => /\ caller'.pc = "returned"
          /\ UNCHANGED << running, device_id, chunk_size, spectrum, worker_handle,
                          sess, nSess >>]_vars
C20_Witness ==
  /\ caller.pc = "returned" /\ caller.op = "stop" /\ ~running
  /\ nSess = 1 /\ sess[1].relayPc = "done" /\ device_id = StaleId
  /\ published # << >>

\* C21: once a drop of the controller has completed, no worker (relay) thread and
\* no capture thread of any of its sessions is alive; the capture session (the
\* audio client, a local of the capture thread) is open only while that thread
\* lives, so none remains open either.
C21_DropStops ==
  caller.pc = "dropped" =>
    \A s \in Sessions : ~RelayAlive(s) /\ ~CaptureAlive(s)

\* a controller dropped while monitoring, after a chunk had been published
C21_Witness ==
  /\ caller.pc = "dropped" /\ ~running
  /\ nSess = 1 /\ sess[1].relayPc = "done" /\ sess[1].capPc = "done"
  /\ published # << >>

\* a step of a get_spectrum call
GetSpectrumStep == caller'.op = "get_spectrum" /\ caller' # caller

\* C22: get_spectrum is a pure read: its steps leave the latest chunk, the running
\* flag, the device id and the chunk size unchanged, and a call returns what the
\* last call with the same num_bands returned when nothing was published in
\* between.
C22_PureRead ==
  [][GetSpectrumStep =>
       /\ UNCHANGED << spectrum, running, device_id, chunk_size >>
       /\ (Returns("get_spectrum") /\ lastRead.n = caller'.argN)
            => (caller'.res = lastRead.res /\ caller'.val = lastRead.val)]_vars

\* C24: exponential_decay(x, k, max) with k > 0 and max > 0 is strictly increasing
\* in x and for every x >= 0 lies in [0, max), never equal to max; every value of
\* the decay-smoothing path is >= 0 and < 1.0.
C24_DecayBelowMax ==
  fnCall.pc = "done" =>
    /\ \A i \in 1..Len(fnCall.out) : fnCall.out[i].m >= 0 /\ fnCall.out[i].m < One30
    /\ fnCall.fn = "exponential_decay" =>
         \A y2 \in 0..MaxDecayX2 :
           y2 < fnCall.x2 =>
             exponential_decay(y2, fnCall.k, fnCall.maxLog2).m < fnCall.out[1].m

\* C25: an iteration of the capture loop extracts and sends a chunk only if the
\* byte queue held at least chunk_size x frame_size bytes at its start, and then
\* exactly one chunk; within an iteration the order is extract and send, then
\* drain the device, then wait on the event.
C25_IterationOrder ==
  [][\A s \in Sessions :
       LET before == sess[s]
           after == sess'[s]
           need == blockalign * before.chunk_size
       IN /\ (before.capPc = "loop" /\ after.capPc # "loop") =>
               IF Len(before.queue) >= need
                 THEN /\ after.capPc = "send"
                      /\ Len(after.capHeld) = before.chunk_size
                      /\ Len(after.queue) = Len(before.queue) - need
                 ELSE /\ after.capPc = "read"
                      /\ after.queue = before.queue
          /\ (before.capPc = "send" /\ after.capPc # "send") =>
               /\ after.capPc \in {"read", "done"}
               /\ after.capPc = "read" =>
                    /\ after.queue = before.queue
                    /\ after.chan = Append(before.chan, before.capHeld)
          /\ (before.capPc = "read" /\ after.capPc # "read") =>
               /\ after.capPc \in {"wait", "done"}
               /\ after.capPc = "wait" =>
                    SubSeq(after.queue, 1, Len(before.queue)) = before.queue
          /\ (before.capPc = "wait" /\ after.capPc # "wait") =>
               /\ after.capPc = "loop" /\ after.queue = before.queue
          /\ Len(after.chan) > Len(before.chan) => before.capPc = "send"
          /\ (after.capHeld # before.capHeld /\ after.capHeld # << >>) =>
               before.capPc = "loop"]_vars

\* an iteration that extracted and sent a chunk, then drained a packet, now waits
C25_Witness ==
  /\ sess[1].capPc = "wait" /\ sess[1].chan # << >> /\ sess[1].queue # << >>

\* C26: with bins_per_band = (F/2) div num_bands, band i of the result aggregates
\* exactly the magnitude bins [i*bins_per_band, (i+1)*bins_per_band): a band is
\* positive exactly when one of its own bins is, so every bin below
\* num_bands*bins_per_band contributes to exactly one band and the bins from
\* there up to F/2 to none (with no bin of its own a band is 0/0).
C26_BandPartition ==
  (fnCall.pc = "done" /\ fnCall.fn = "band_loop") =>
    LET bins_per_band == Len(fnCall.data) \div fnCall.n
    IN /\ Len(fnCall.out) = fnCall.n
       /\ \A i \in 0..(fnCall.n - 1) :
            fnCall.out[i + 1] =
              IF bins_per_band = 0 THEN "nan"
              ELSE IF \E j \in 0..(Len(fnCall.data) - 1) :
                        /\ i * bins_per_band <= j /\ j < (i + 1) * bins_per_band
                        /\ fnCall.data[j + 1] > 0
                THEN "pos"
              ELSE "zero"

\* four bins in three bands: only the bin beyond the last band is positive, and
\* no band is
C26_Witness ==
  /\ fnCall.pc = "done" /\ fnCall.fn = "band_loop"
  /\ fnCall.n = 3 /\ fnCall.data = << 0, 0, 0, 1 >>
  /\ fnCall.out = << "zero", "zero", "zero" >>

\* the thread is inside a channel receive, a thread join or the wait for the
\* other lock (the capture thread, which blocks in send and in the event wait,
\* takes neither lock)
BlockedThread(t) ==
  IF t = CallerId THEN caller.pc = "join"
  ELSE sess[t].relayPc \in {"recv", "join", "pub_lock"}

\* C27: no thread holds the running-flag lock or the latest-chunk lock while it
\* is blocked in a channel receive, a channel send, the event wait or a join:
\* the flag's lock is taken and released within one read or write, and the
\* slot's lock is held only by get_spectrum's closure or the relay's store, so
\* the holder of a lock can always take its next step.
C27_NoLockAcrossBlocking ==
  /\ runningLock = 0
  /\ spectrumLock # 0 => ~BlockedThread(spectrumLock)
  /\ spectrumLock = CallerId => caller.pc = "gs_locked"
  /\ \A s \in Sessions :
       spectrumLock = s => sess[s].relayPc \in {"pub_first", "pub_len", "pub_buf"}

\* the relay stores a chunk under the lock while the caller is inside stop()'s
\* join and the capture thread waits on the event
C27_Witness ==
  /\ spectrumLock = 1 /\ caller.pc = "join" /\ sess[1].capPc = "wait"

\* a relay is between the two stores of a publish
Storing == spectrumLock \in Sessions

\* C28: the relay keeps no history.  Outside a store the slot is empty (nothing
\* published yet) or holds exactly the chunk of the last publish; a publish
\* replaces the slot by the received chunk, whose length is the chunk size of
\* the session that produced it; nothing but a relay's store changes the slot.
C28_LatestChunkOnly ==
  /\ [](~Storing => spectrum = WholeVec(published))
  /\ [][\A s \in Sessions :
          (sess[s].relayPc \in {"pub_len", "pub_buf"} /\ sess'[s].relayPc = "check") =>
            /\ spectrum' = WholeVec(sess[s].relayHeld)
            /\ spectrum'.len = sess[s].chunk_size]_vars
  /\ [][spectrum' # spectrum => Storing]_vars

\* the second chunk of a session of chunk size 1 has replaced the first
C28_Witness ==
  /\ nSess = 1 /\ sess[1].chunk_size = 1 /\ sess[1].relayGot = 2
  /\ sess[1].relayPc = "check" /\ ~spectrumPoisoned
  /\ spectrum = WholeVec(published) /\ spectrum.len = 1

C30_IdIsOpenedEndpoint ==
  \A s \in Sessions :
    (CaptureAlive(s) /\ sess[s].opened # NoDevice) => current_device_id = sess[s].opened

\* the samples of channel 0 of frames from+1 .. from+n
ChunkOfFrames(from, n) == [i \in 1..n |-> F32FromInt(from + i)]
\* the chunks a session of any chunk size cuts out of the endpoint's frames
FlowChunks ==
  {ChunkOfFrames(k * n, n) : k \in 0..(MaxFrames - 1), n \in 1..MaxChunkSize}
\* monitoring is running on the session the controller holds, both of its
\* threads alive
Flowing ==
  /\ running /\ ~aborted /\ worker_handle \in Sessions
  /\ RelayAlive(worker_handle) /\ CaptureAlive(worker_handle)
\* chunk c is in the channel of the running session
Sent(c) ==
  /\ worker_handle \in Sessions
  /\ \E i \in 1..Len(sess[worker_handle].chan) : sess[worker_handle].chan[i] = c

\* C31: while monitoring stays running with both threads of the session alive,
\* under fair scheduling every chunk the capture thread has sent is eventually
\* the published chunk.
C31_ChunksFlow ==
  \A c \in FlowChunks : (Flowing /\ Sent(c)) ~> (published = c \/ ~Flowing)

\* the most bytes one call of read_from_device_to_deque appends
DrainBytes == blockalign * MaxPacketFrames

\* C32: the capture thread's byte queue of a session of chunk size >= 1 holds
\* fewer than chunk_size * blockalign bytes plus the bytes of one device drain.
C32_QueueBounded ==
  \A s \in Sessions :
    sess[s].chunk_size >= 1
      => Len(sess[s].queue) < blockalign * sess[s].chunk_size + DrainBytes

\* a step of stop(), set_device() or start() on the caller's thread
ControlStep == caller' # caller /\ caller'.op \in {"stop", "set_device", "start"}

\* C33: no step of stop(), set_device() or start() changes the latest-chunk
\* slot, and once a chunk has been published every read of the slot by
\* get_spectrum sees the most recently published chunk, whether monitoring is
\* running, stopped or restarted.
C33_SlotSurvives ==
  /\ [][ControlStep => spectrum' = spectrum /\ published' = published]_vars
  /\ [][(ReadsSlot /\ published # << >>) => caller'.seen = published]_vars
\* get_spectrum has returned values computed from the chunk of the first
\* session while the second session's worker thread has received nothing yet
C33_Witness ==
  /\ GotSpectrum /\ caller.res = "ok" /\ caller.argN = 1
  /\ caller.seen = published /\ published # << >>
  /\ nSess = 2 /\ running /\ RelayAlive(2) /\ sess[2].relayGot = 0
  /\ ~RelayAlive(1) /\ ~CaptureAlive(1)

\* C34: when start() has returned an error the controller is stopped: running()
\* is false and no worker thread is held.
C34_FailedStartIsStopped ==
  (caller.pc = "returned" /\ caller.op = "start" /\ caller.res = "err")
    => ~running_get /\ worker_handle = 0

\* no call of the controller is in progress
BetweenCalls == caller.pc \in {"idle", "returned"}

\* C35: between calls, running() is true only if the worker thread launched by
\* the last start() is alive, and a worker handle is held only while the flag
\* is true.
C35_FlagMeansWorker ==
  BetweenCalls
    => /\ running_get => (worker_handle \in Sessions /\ RelayAlive(worker_handle))
       /\ worker_handle # 0 => running_get

\* C36: whenever the capture thread ends after start_stream has succeeded, the
\* stream has been stopped.
C36_StreamStoppedOnExit ==
  [][\A s \in Sessions :
       (sess[s].streamOn /\ CaptureAlive(s) /\ sess'[s].capPc = "done")
         => ~sess'[s].streamOn]_vars

\* a call of initialize_client returns an error in this step
InitializeFails ==
  /\ audio_client'.calls # audio_client.calls
  /\ audio_client'.fn = "initialize_client" /\ audio_client'.res # "Ok"

\* C37: a call of initialize_client that returns an error leaves the client's
\* sharemode and bytes_per_frame as they were.
C37_ErrorLeavesUninitialized ==
  [][InitializeFails
       => /\ audio_client'.sharemode = audio_client.sharemode
          /\ audio_client'.bytes_per_frame = audio_client.bytes_per_frame]_vars

\* the samples the callback has been given and has not yet appended
CallbackPending == listener.data["callback"]

\* C38: under any interleaving of callbacks and get_buffer calls the results of
\* the get_buffer calls, concatenated in the order of their return, are a prefix
\* of the callback's inputs (no sample twice, none out of order), and the
\* samples not yet returned are exactly the buffer's, followed by those the
\* callback is about to append (none lost).
C38_EachSampleOnce ==
  /\ Len(listener.got) <= Len(listener.fed)
  /\ \A i \in 1..Len(listener.got) : listener.got[i] = listener.fed[i]
  /\ listener.got \o listener.buffer \o CallbackPending = listener.fed
\* three samples fed in two slices have gone out through two get_buffer calls,
\* one on each thread
C38_Witness ==
  /\ listener.fed = << 1, 2, 3 >> /\ listener.got = listener.fed
  /\ listener.data["reader1"] = << 1 >> /\ listener.data["reader2"] = << 2, 3 >>
  /\ \A t \in ListenerThreads : listener.pc[t] = "idle"

====
